---- MODULE Spec2Model ----
(***************************************************************************)
(* Model of the Bluesky DM reply bot (src/src/types.ts, bluesky-dm.ts).    *)
(*                                                                         *)
(* The KV namespace BOT_CONFIG holds the key 'config' and one key          *)
(* 'replied:<did>' per correspondent that was replied to.  The cron        *)
(* handler runDmReplyCycle is modelled as a process per invocation slot,   *)
(* with one action per stretch of code between two awaits.  The admin      *)
(* requests that write the config key are modelled as atomic actions.      *)
(* The Bluesky chat service is the environment: a set of conversations     *)
(* served page by page, whose last message changes when somebody writes.   *)
(***************************************************************************)
EXTENDS Integers, Sequences, FiniteSets, TLC

\* ------------------------------------------------------------------ bounds
MaxCycles == 2          \* cron firings explored in one behaviour

\* ------------------------------------------------------- program constants
MAX_DELAY_SECONDS == 300
DM_MAX_GRAPHEMES == 1000
MIN_PASSWORD_LENGTH == 8
SESSION_TTL_SEC == 7 * 24 * 60 * 60
PerCycleSendCap == 10   \* README "Max 10 replies per run"

\* --------------------------------------------------------------- constants
Bot == 0                \* the DID of the bot's own account
Null == -1              \* null / undefined
Procs == {1, 2}         \* invocations of scheduled() that may overlap
\* a JSON value handed to Number(): a number, kept in tenths, or a string that
\* is not a numeral
Seconds(n) == [type |-> "number", tenths |-> 10 * n]
Tenths(n) == [type |-> "number", tenths |-> n]
NotANumeral == [type |-> "string", tenths |-> 0]
DelayInputs == {Seconds(0), Seconds(2)}

\* strings are sequences of code units; " " is white space, "^" a combining
\* mark, which Intl.Segmenter keeps in the grapheme cluster of the unit before
Str(n, u) == [i \in 1..n |-> u]
DEFAULT_WELCOME == <<"H", "i", "!">>
ShortPassword == Str(MIN_PASSWORD_LENGTH - 1, "p")
LongPassword == Str(MIN_PASSWORD_LENGTH, "p")
Passwords == {ShortPassword, LongPassword}
\* an optional field of a JSON body: {} when absent, {v} when present
Absent == {}
Given(opt) == CHOOSE v \in opt : TRUE
MessageInputs == {Absent, {<<>>}, {<<" ", "y", "o", " ">>}}

VARIABLES
  config,        \* value of KV key 'config' as getConfig returns it
  ledger,        \* set of DIDs d whose KV key 'replied:<d>' is live
  convos,        \* the chat service: convo id -> [id, members, lastMessage]
  pages,         \* the chat service: the pages listConvos serves, as convo ids
  run,           \* per invocation: position and locals of runDmReplyCycle
  delivered,     \* history: DID -> number of replies the service accepted
  confirmed,     \* history: DIDs with a send for which sendMessage returned true
  started,       \* history: number of cron firings so far
  firstRun,      \* history: how the latest cycle went ("none" once disturbed)
  secondRun,     \* history: whether the running cycle directly follows another
  ev,            \* history: what the last step was when it ended or failed
                 \* something, [op, p, status]; [op |-> "step"] otherwise
  secret,        \* env.ADMIN_SESSION_SECRET, "" when it is not set
  now,           \* Math.floor(Date.now() / 1000)
  issued,        \* history: the session tokens createSession has returned
  resp,          \* history: the last admin request and the answer it got
  loggedOut      \* history: the session tokens a logout was requested with

vars == <<config, ledger, convos, pages, run, delivered, confirmed, started,
          firstRun, secondRun, ev, secret, now, issued, resp, loggedOut>>

adminSide == <<secret, now, issued, resp, loggedOut>>

\* ------------------------------------------------------------ pure helpers
Min(a, b) == IF a < b THEN a ELSE b
Max(a, b) == IF a > b THEN a ELSE b

\* Number(val), in tenths: NaN for a string that is not a numeral
Number(val) == [nan |-> val.type # "number", tenths |-> val.tenths]
\* Math.round: to the nearest integer, a half goes up; NaN stays NaN
MathRound(x) == [nan |-> x.nan, tenths |-> ((x.tenths + 5) \div 10) * 10]
\* x || 0 for a rounded x: NaN and 0 are falsy
OrZero(x) == IF x.nan THEN 0 ELSE x.tenths \div 10

\* variant: the upper limit is not applied
clampDelayNoCap(val) == Max(0, OrZero(MathRound(Number(val))))

clampDelay(val) ==
  Min(MAX_DELAY_SECONDS, Max(0, OrZero(MathRound(Number(val)))))

\* String.prototype.trim
IsInk(t, i) == t[i] # " "
RECURSIVE FirstInk(_, _, _)
FirstInk(t, lo, hi) ==
  IF lo > hi THEN lo
  ELSE IF lo = hi THEN (IF IsInk(t, lo) THEN lo ELSE lo + 1)
  ELSE LET mid == (lo + hi) \div 2
       IN  IF \E i \in lo..mid : IsInk(t, i) THEN FirstInk(t, lo, mid)
           ELSE FirstInk(t, mid + 1, hi)
RECURSIVE LastInk(_, _, _)
LastInk(t, lo, hi) ==
  IF lo > hi THEN hi
  ELSE IF lo = hi THEN (IF IsInk(t, lo) THEN lo ELSE lo - 1)
  ELSE LET mid == (lo + hi) \div 2
       IN  IF \E i \in (mid + 1)..hi : IsInk(t, i) THEN LastInk(t, mid + 1, hi)
           ELSE LastInk(t, lo, mid)
Trim(t) == SubSeq(t, FirstInk(t, 1, Len(t)), LastInk(t, 1, Len(t)))

\* a || b on strings: the empty string is falsy
OrDefault(t, default) == IF t = <<>> THEN default ELSE t

\* Intl.Segmenter, granularity 'grapheme': a cluster starts at every code unit
\* that is not a combining mark
IsSegmentStart(t, i) == i = 1 \/ t[i] # "^"
Segments(t) == {i \in 1..Len(t) : IsSegmentStart(t, i)}
\* the code unit at which the k-th cluster of t[lo..hi] starts
RECURSIVE KthSegmentStart(_, _, _, _)
KthSegmentStart(t, lo, hi, k) ==
  IF lo = hi THEN lo
  ELSE LET mid == (lo + hi) \div 2
           c == Cardinality({i \in lo..mid : IsSegmentStart(t, i)})
       IN  IF k <= c THEN KthSegmentStart(t, lo, mid, k)
           ELSE KthSegmentStart(t, mid + 1, hi, k - c)

\* variant: the limit is counted in code units
truncateMessageByCodeUnits(text) ==
  IF Len(text) <= DM_MAX_GRAPHEMES THEN text
  ELSE SubSeq(text, 1, DM_MAX_GRAPHEMES)

truncateMessage(text) ==
  IF Cardinality(Segments(text)) <= DM_MAX_GRAPHEMES THEN text
  ELSE SubSeq(text, 1, KthSegmentStart(text, 1, Len(text), DM_MAX_GRAPHEMES + 1) - 1)

NoHash == <<>>
DefaultConfig ==
  [welcomeMessage |-> DEFAULT_WELCOME, enabled |-> FALSE,
   messageDelaySeconds |-> 0, setupComplete |-> FALSE,
   adminPasswordHash |-> NoHash]

hashPassword(password) == <<"sha256", password>>

\* index of the first member that is not ourDid, 0 if there is none
RECURSIVE FindOther(_, _, _)
FindOther(members, ourDid, i) ==
  IF i > Len(members) THEN 0
  ELSE IF members[i] # ourDid THEN i
  ELSE FindOther(members, ourDid, i + 1)

getOtherParticipantDid(ourDid, convo) ==
  IF ourDid = Null \/ convo.members = <<>> THEN Null
  ELSE LET i == FindOther(convo.members, ourDid, 1)
       IN  IF i = 0 THEN Null ELSE convo.members[i]

\* variant: any last message counts, whoever sent it
isLastMessageFromOtherAnySender(ourDid, convo) ==
  IF convo.lastMessage = Null \/ ourDid = Null THEN FALSE ELSE TRUE

\* variant: a missing last-message record counts as a message of the other
isLastMessageFromOtherOrNone(ourDid, convo) ==
  IF ourDid = Null THEN FALSE ELSE convo.lastMessage # ourDid

isLastMessageFromOther(ourDid, convo) ==
  IF convo.lastMessage = Null \/ ourDid = Null THEN FALSE
  ELSE convo.lastMessage # ourDid

\* ---------------------------------------------------------------- worlds
SmallConvos ==
  (1 :> [id |-> 1, members |-> <<Bot, 1>>, lastMessage |-> 1]) @@
  (2 :> [id |-> 2, members |-> <<Bot, 2>>, lastMessage |-> Bot]) @@
  (3 :> [id |-> 3, members |-> <<Bot, 1, 2>>, lastMessage |-> Null])
SmallPages == << <<1, 2>>, <<3>> >>

\* one more first-time correspondent than the documented cap, on one page
BigWorldConvos == PerCycleSendCap + 1
BigConvos ==
  [c \in 1..BigWorldConvos |-> [id |-> c, members |-> <<Bot, c>>, lastMessage |-> c]]
BigPages == << [i \in 1..BigWorldConvos |-> i] >>

\* conversations that are not well formed, before a well-formed one: the bot
\* alone, no members, no last-message record
OddConvos ==
  (1 :> [id |-> 1, members |-> <<Bot>>, lastMessage |-> 1]) @@
  (2 :> [id |-> 2, members |-> <<>>, lastMessage |-> 2]) @@
  (3 :> [id |-> 3, members |-> <<Bot, 3>>, lastMessage |-> Null]) @@
  (4 :> [id |-> 4, members |-> <<Bot, 4>>, lastMessage |-> 4])
OddPages == << <<1, 2>>, <<3, 4>> >>

\* the locals of runDmReplyCycle; waited and wire are what the current
\* conversation got: the delay that was awaited and the text handed to fetch;
\* sentTo is the history of the DIDs this cycle's sends were accepted for
NoConfig == [enabled |-> FALSE]
IdleRun ==
  [pc |-> "idle", config |-> NoConfig, welcomeMsg |-> <<>>, delay |-> 0,
   ourDid |-> Null, cursor |-> 0, page |-> <<>>, idx |-> 0, repliedCount |-> 0,
   waited |-> Null, wire |-> <<>>, sentTo |-> {}]

\* ------------------------------------------------------------------ Init
NoSecret == ""
ServerSecret == "k1"
NoResponse ==
  [path |-> "", method |-> "", session |-> "none", afterLogout |-> FALSE,
   adminPassword |-> Absent, password |-> Absent, delay |-> Absent,
   status |-> 0, kind |-> "none"]

InitState(cv, pg, cf, sec) ==
  /\ config = cf
  /\ ledger = {}
  /\ convos = cv
  /\ pages = pg
  /\ run = [p \in Procs |-> IdleRun]
  /\ delivered = [d \in DOMAIN cv |-> 0]
  /\ confirmed = {}
  /\ started = 0
  /\ firstRun = "none"
  /\ secondRun = "no"
  /\ ev = [op |-> "step", p |-> 0, status |-> 0]
  /\ secret = sec
  /\ now = 0
  /\ issued = {}
  /\ resp = NoResponse
  /\ loggedOut = {}

InitWith(cv, pg, cf) == InitState(cv, pg, cf, ServerSecret)

Init == InitWith(SmallConvos, SmallPages, DefaultConfig)

\* ------------------------------------------------- bookkeeping of history
Event(op, p) == [op |-> op, p |-> p, status |-> 0]
Quiet == Event("step", 0)

\* a cron firing: the cycle that just ran becomes "the first run" of a pair
FirstAtStart == "clean"
SecondAtStart ==
  CASE firstRun = "clean" -> "afterClean"
    [] firstRun = "dirty" -> "afterAny"
    [] OTHER -> "no"
\* the running cycle did not complete its scan, or one of its sends failed
Dirty == IF firstRun = "clean" THEN "dirty" ELSE firstRun

CycleHist(op, p, fr) ==
  /\ ev' = Event(op, p)
  /\ firstRun' = fr
  /\ UNCHANGED <<secondRun, started, adminSide>>

\* an event of the environment (a new message, an expiry, an admin request)
EnvHist ==
  /\ ev' = Quiet
  /\ firstRun' = "none"
  /\ secondRun' = "no"
  /\ UNCHANGED started

\* --------------------------------------------------- runDmReplyCycle steps
\* variant: the enabled flag is not looked at
CycleRunsAlways(cf) == TRUE

CycleRuns(cf) == cf.enabled

SnapshotDelay(cf) == Min(MAX_DELAY_SECONDS, Max(0, cf.messageDelaySeconds))
SnapshotMessage(cf) == OrDefault(Trim(cf.welcomeMessage), DEFAULT_WELCOME)

\* scheduled() fires; getConfig; return at once when the bot is disabled
StartCycle(p) ==
  /\ run[p].pc = "idle"
  /\ started < MaxCycles
  /\ started' = started + 1
  /\ firstRun' = FirstAtStart
  /\ secondRun' = SecondAtStart
  /\ IF CycleRuns(config)
       THEN /\ run' = [run EXCEPT ![p] =
                         [IdleRun EXCEPT !.pc = "login", !.config = config,
                                         !.welcomeMsg = SnapshotMessage(config),
                                         !.delay = SnapshotDelay(config)]]
            /\ ev' = Quiet
       ELSE /\ run' = [run EXCEPT ![p] = IdleRun]
            /\ ev' = Event("CycleDisabled", p)
  /\ UNCHANGED <<config, ledger, convos, pages, delivered, confirmed, adminSide>>

\* variant: the failure is swallowed and the cycle goes on to list
OnLoginErrorContinue(r) == [r EXCEPT !.pc = "list"]

\* the cycle cannot log in: it returns (no credentials) or login's throw
\* leaves runDmReplyCycle; the invocation is over, its locals are gone
OnLoginError(r) == IdleRun

\* BSKY_HANDLE or BSKY_APP_PASSWORD not set: return
LoginNoCreds(p) ==
  /\ run[p].pc = "login"
  /\ run' = [run EXCEPT ![p] = OnLoginError(run[p])]
  /\ CycleHist("NoCreds", p, Dirty)
  /\ UNCHANGED <<config, ledger, convos, pages, delivered, confirmed>>

\* createSession answers not ok: login throws, the cycle ends
LoginFail(p) ==
  /\ run[p].pc = "login"
  /\ run' = [run EXCEPT ![p] = OnLoginError(run[p])]
  /\ CycleHist("LoginFail", p, Dirty)
  /\ UNCHANGED <<config, ledger, convos, pages, delivered, confirmed>>

\* createSession answers ok; ourDid = data.did || null
LoginOk(p) ==
  /\ run[p].pc = "login"
  /\ \E did \in {Bot, Null} :
       /\ run' = [run EXCEPT ![p].pc = "list", ![p].ourDid = did]
       /\ CycleHist("step", 0, IF did = Null THEN Dirty ELSE firstRun)
  /\ UNCHANGED <<config, ledger, convos, pages, delivered, confirmed>>

PageNo(cursor) == IF cursor = 0 THEN 1 ELSE cursor
\* variant: the service's token is not taken over, the page is fetched again
NextCursorStuck(n) == n

NextCursor(n) == IF n < Len(pages) THEN n + 1 ELSE 0

\* listConvos(50, cursor) answers ok: the page as the service holds it now
ListOk(p) ==
  /\ run[p].pc = "list"
  /\ LET n == PageNo(run[p].cursor)
     IN  run' = [run EXCEPT ![p].pc = "loop",
                            ![p].page = [i \in 1..Len(pages[n]) |-> convos[pages[n][i]]],
                            ![p].cursor = NextCursor(n),
                            ![p].idx = 1]
  /\ CycleHist("step", 0, firstRun)
  /\ UNCHANGED <<config, ledger, convos, pages, delivered, confirmed>>

\* variant: a failed listing is taken for an empty last page
OnListErrorContinue(r) ==
  [r EXCEPT !.pc = "loop", !.page = <<>>, !.idx = 1, !.cursor = 0]

OnListError(r) == IdleRun

\* listConvos throws (answer not ok, or not logged in): the cycle ends
ListFail(p) ==
  /\ run[p].pc = "list"
  /\ run' = [run EXCEPT ![p] = OnListError(run[p])]
  /\ CycleHist("ListFail", p, Dirty)
  /\ UNCHANGED <<config, ledger, convos, pages, delivered, confirmed>>

CurConvo(r) == r.page[r.idx]
OtherDid(r) == getOtherParticipantDid(r.ourDid, CurConvo(r))

\* variant: the result of the ledger read is ignored
alreadyRepliedIgnored(kv, otherDid) == FALSE

alreadyReplied(kv, otherDid) == otherDid \in kv

\* the three skips of the loop body, the last one reading 'replied:<did>'
Eligible(r, kv) ==
  /\ OtherDid(r) # Null
  /\ isLastMessageFromOther(r.ourDid, CurConvo(r))
  /\ ~alreadyReplied(kv, OtherDid(r))

\* variant: the delay is left out
AfterEligibleNoDelay(r) == "send"

\* if (delay > 0) await the timer, before sendMessage
AfterEligible(r) == IF r.delay > 0 THEN "delay" ELSE "send"

\* one conversation of the page: skip it, or go on to the delay and the send
Examine(p) ==
  /\ run[p].pc = "loop"
  /\ run[p].idx <= Len(run[p].page)
  /\ IF Eligible(run[p], ledger)
       THEN /\ run' = [run EXCEPT ![p].pc = AfterEligible(run[p])]
            /\ CycleHist("step", 0, firstRun)
       ELSE /\ run' = [run EXCEPT ![p].idx = @ + 1]
            /\ CycleHist("step", 0, firstRun)
  /\ UNCHANGED <<config, ledger, convos, pages, delivered, confirmed>>

\* end of the page: while (cursor)
EndPage(p) ==
  /\ run[p].pc = "loop"
  /\ run[p].idx > Len(run[p].page)
  /\ IF run[p].cursor # 0
       THEN /\ run' = [run EXCEPT ![p].pc = "list"]
            /\ CycleHist("step", 0, firstRun)
       ELSE /\ run' = [run EXCEPT ![p] = IdleRun]
            /\ CycleHist("CycleDone", p, firstRun)
  /\ UNCHANGED <<config, ledger, convos, pages, delivered, confirmed>>

\* variant: the delay is taken from the stored config at the time of the send
DelayUsedStored(r, stored) == SnapshotDelay(stored)

\* the delay the cycle awaits, the text it hands to sendMessage
DelayUsed(r, stored) == r.delay
TextUsed(r, stored) == r.welcomeMsg

\* setTimeout(delay * 1000) elapses
Delay(p) ==
  /\ run[p].pc = "delay"
  /\ run' = [run EXCEPT ![p].pc = "send", ![p].waited = DelayUsed(run[p], config)]
  /\ CycleHist("step", 0, firstRun)
  /\ UNCHANGED <<config, ledger, convos, pages, delivered, confirmed>>

\* the service accepts the message; the answer is on its way back
SendOk(p) ==
  /\ run[p].pc = "send"
  /\ run' = [run EXCEPT ![p].pc = "resp",
                         ![p].wire = truncateMessage(Trim(TextUsed(run[p], config))),
                         ![p].sentTo = @ \cup {OtherDid(run[p])}]
  /\ convos' = [convos EXCEPT ![CurConvo(run[p]).id].lastMessage = run[p].ourDid]
  /\ delivered' = [delivered EXCEPT ![OtherDid(run[p])] = @ + 1]
  /\ CycleHist("step", 0, firstRun)
  /\ UNCHANGED <<config, ledger, pages, confirmed>>

\* variant: the entry is never written
LedgerAfterSendNever(kv, otherDid, sent) == kv

\* variant: the entry is written whatever sendMessage returned
LedgerAfterSendAlways(kv, otherDid, sent) == kv \cup {otherDid}

\* what the KV holds after sendMessage returned `sent`
LedgerAfterSend(kv, otherDid, sent) == IF sent THEN kv \cup {otherDid} ELSE kv

\* variant: a successful send also steps over the following conversation
AfterSendSkipsNext(r, sent) ==
  [r EXCEPT !.pc = "loop", !.idx = IF sent THEN @ + 2 ELSE @ + 1,
            !.repliedCount = IF sent THEN @ + 1 ELSE @,
            !.waited = Null, !.wire = <<>>]

\* variant: a failed send ends the cycle
AfterSendStopsOnFailure(r, sent) ==
  IF sent
    THEN [r EXCEPT !.pc = "loop", !.idx = @ + 1, !.repliedCount = @ + 1,
                   !.waited = Null, !.wire = <<>>]
    ELSE IdleRun

AfterSend(r, sent) ==
  [r EXCEPT !.pc = "loop", !.idx = @ + 1,
            !.repliedCount = IF sent THEN @ + 1 ELSE @,
            !.waited = Null, !.wire = <<>>]

\* answers of sendMessage's fetch that are not ok: rate limited, server error
FailureStatuses == {429, 500}

\* the service answers not ok: sendMessage returns false, next conversation
SendFail(p) ==
  /\ run[p].pc = "send"
  /\ ledger' = LedgerAfterSend(ledger, OtherDid(run[p]), FALSE)
  /\ run' = [run EXCEPT ![p] = AfterSend(run[p], FALSE)]
  /\ \E status \in FailureStatuses :
       ev' = [Event("SendFail", p) EXCEPT !.status = status]
  /\ firstRun' = Dirty
  /\ UNCHANGED <<secondRun, started, adminSide>>
  /\ UNCHANGED <<config, convos, pages, delivered, confirmed>>

\* fetch rejects inside sendMessage: the exception ends the cycle
SendThrow(p) ==
  /\ run[p].pc = "send"
  /\ run' = [run EXCEPT ![p] = IdleRun]
  /\ CycleHist("SendThrow", p, Dirty)
  /\ UNCHANGED <<config, ledger, convos, pages, delivered, confirmed>>

\* sendMessage returns true: the send is confirmed
SendReturn(p) ==
  /\ run[p].pc = "resp"
  /\ run' = [run EXCEPT ![p].pc = "put"]
  /\ confirmed' = confirmed \cup {OtherDid(run[p])}
  /\ CycleHist("step", 0, firstRun)
  /\ UNCHANGED <<config, ledger, convos, pages, delivered>>

\* BOT_CONFIG.put(repliedKey, '1', ttl); repliedCount++
LedgerPut(p) ==
  /\ run[p].pc = "put"
  /\ ledger' = LedgerAfterSend(ledger, OtherDid(run[p]), TRUE)
  /\ run' = [run EXCEPT ![p] = AfterSend(run[p], TRUE)]
  /\ CycleHist("step", 0, firstRun)
  /\ UNCHANGED <<config, convos, pages, delivered, confirmed>>

\* the host terminates the invocation (CPU or wall-clock limit)
Kill(p) ==
  /\ run[p].pc # "idle"
  /\ run' = [run EXCEPT ![p] = IdleRun]
  /\ CycleHist("Kill", p, Dirty)
  /\ UNCHANGED <<config, ledger, convos, pages, delivered, confirmed>>

\* ------------------------------------------------------------ environment
\* a member other than the bot writes into a conversation
NewInbound(c) ==
  /\ \E i \in 1..Len(convos[c].members) :
       /\ convos[c].members[i] # Bot
       /\ convos[c].lastMessage # convos[c].members[i]
       /\ convos' = [convos EXCEPT ![c].lastMessage = convos[c].members[i]]
  /\ EnvHist
  /\ UNCHANGED <<config, ledger, pages, run, delivered, confirmed, adminSide>>

\* the KV drops 'replied:<d>' when its expirationTtl (one year) has passed
Expire(d) ==
  /\ d \in ledger
  /\ ledger' = ledger \ {d}
  /\ EnvHist
  /\ UNCHANGED <<config, convos, pages, run, delivered, confirmed, adminSide>>

\* ---------------------------------------------------------- admin requests
Coalesce(given, default) == IF given = "undefined" THEN default ELSE given = "true"
BoolInputs == {"true", "false", "undefined"}

\* (body.welcomeMessage || DEFAULT_WELCOME).trim() || DEFAULT_WELCOME
SetupMessage(msg) ==
  OrDefault(Trim(IF msg = Absent THEN DEFAULT_WELCOME
                 ELSE OrDefault(Given(msg), DEFAULT_WELCOME)),
            DEFAULT_WELCOME)
\* (body.welcomeMessage ?? config.welcomeMessage).trim() || DEFAULT_WELCOME
UpdatedMessage(msg, cf) ==
  OrDefault(Trim(IF msg = Absent THEN cf.welcomeMessage ELSE Given(msg)),
            DEFAULT_WELCOME)

\* a JSON body; a field that is missing is Absent, a flag is in BoolInputs
EmptyBody ==
  [adminPassword |-> Absent, password |-> Absent, welcomeMessage |-> Absent,
   enabled |-> "undefined", messageDelaySeconds |-> Absent]

\* (body.adminPassword || '').trim()
SetupPassword(body) ==
  Trim(IF body.adminPassword = Absent THEN <<>> ELSE Given(body.adminPassword))
\* variant: the length of the password is not checked
PasswordAcceptedAny(body) == TRUE

PasswordAccepted(body) == Len(SetupPassword(body)) >= MIN_PASSWORD_LENGTH

\* the config POST /api/setup saves
SetupConfig(cf, body) ==
  [cf EXCEPT !.welcomeMessage = SetupMessage(body.welcomeMessage),
             !.enabled = Coalesce(body.enabled, FALSE),
             !.messageDelaySeconds =
                clampDelay(IF body.messageDelaySeconds = Absent THEN Seconds(0)
                           ELSE Given(body.messageDelaySeconds)),
             !.adminPasswordHash = hashPassword(SetupPassword(body)),
             !.setupComplete = TRUE]

\* variant: the saved config is built without spreading the stored one
UpdatedConfigFresh(cf, body) ==
  [DefaultConfig EXCEPT !.welcomeMessage = UpdatedMessage(body.welcomeMessage, cf),
                        !.enabled = Coalesce(body.enabled, cf.enabled),
                        !.messageDelaySeconds =
                           IF body.messageDelaySeconds # Absent
                             THEN clampDelay(Given(body.messageDelaySeconds))
                             ELSE cf.messageDelaySeconds]

\* the config POST /api/config saves
UpdatedConfig(cf, body) ==
  [cf EXCEPT !.welcomeMessage = UpdatedMessage(body.welcomeMessage, cf),
             !.enabled = Coalesce(body.enabled, cf.enabled),
             !.messageDelaySeconds =
                IF body.messageDelaySeconds # Absent
                  THEN clampDelay(Given(body.messageDelaySeconds))
                  ELSE cf.messageDelaySeconds]

\* the config POST /api/toggle saves
ToggledConfig(cf, body) == [cf EXCEPT !.enabled = Coalesce(body.enabled, ~cf.enabled)]

\* POST /admin/api/setup, as the reply cycles see it
AdminSetup(msgs) ==
  /\ \E pw \in Passwords :
       LET body == [EmptyBody EXCEPT !.adminPassword = {pw}]
       IN  IF ~PasswordAccepted(body)
             THEN config' = config
             ELSE \E en \in BoolInputs, d \in DelayInputs, msg \in msgs :
                    config' = SetupConfig(config,
                                [body EXCEPT !.enabled = en,
                                             !.messageDelaySeconds = {d},
                                             !.welcomeMessage = msg])
  /\ EnvHist
  /\ UNCHANGED <<ledger, convos, pages, run, delivered, confirmed, adminSide>>

\* POST /admin/api/config, as the reply cycles see it
AdminConfigPost(msgs) ==
  /\ config.setupComplete
  /\ \E isAuthenticated \in BOOLEAN :
       IF ~isAuthenticated
         THEN config' = config
         ELSE \E en \in BoolInputs, d \in {Absent} \cup {{x} : x \in DelayInputs},
                 msg \in msgs :
                config' = UpdatedConfig(config,
                            [EmptyBody EXCEPT !.enabled = en,
                                              !.messageDelaySeconds = d,
                                              !.welcomeMessage = msg])
  /\ EnvHist
  /\ UNCHANGED <<ledger, convos, pages, run, delivered, confirmed, adminSide>>

\* POST /admin/api/toggle, as the reply cycles see it
AdminToggle ==
  /\ config.setupComplete
  /\ \E isAuthenticated \in BOOLEAN :
       IF ~isAuthenticated
         THEN config' = config
         ELSE \E en \in BoolInputs :
                config' = ToggledConfig(config, [EmptyBody EXCEPT !.enabled = en])
  /\ EnvHist
  /\ UNCHANGED <<ledger, convos, pages, run, delivered, confirmed, adminSide>>

\* ------------------------------------------------------------ admin sessions
\* a payload is the JSON text that is signed: it parses or not, and carries
\* an exp or none
Payload(exp) == [json |-> TRUE, exp |-> {exp}]
NotJson == [json |-> FALSE, exp |-> Absent]
\* HMAC-SHA-256, taken to be free of collisions
Hmac(key, data) == <<"hmac", key, data>>
\* a token `${btoa(data)}.${sigB64}`: <<data, sig>>; <<data>> has no dot and
\* <<>> is no cookie at all
Token(key, signed, carried) == <<carried, Hmac(key, signed)>>

createSession(sec, t) ==
  Token(sec, Payload(t + SESSION_TTL_SEC), Payload(t + SESSION_TTL_SEC))

\* variant: the expiry is not looked at
verifySessionNoExpiry(token, sec, t) ==
  /\ Len(token) >= 2
  /\ token[1].json
  /\ token[2] = Hmac(sec, token[1])

verifySession(token, sec, t) ==
  /\ Len(token) >= 2
  /\ token[1].json
  /\ ~(token[1].exp # Absent /\ Given(token[1].exp) < t)
  /\ token[2] = Hmac(sec, token[1])

\* variant: any cookie counts as a session
isAuthenticatedAnyCookie(token, sec, t) == token # <<>>

\* sessionToken ? await verifySession(sessionToken, secret) : false
isAuthenticated(token, sec, t) == token # <<>> /\ verifySession(token, sec, t)

\* variant: the gate after the setup route is missing
SetupGateOpen(cf) == FALSE

\* the second gate: nothing but the setup route is served before setup
SetupGate(cf) == ~cf.setupComplete

\* --------------------------------------------------------------- handleAdmin
Answer(cf, status, kind) ==
  [config |-> cf, status |-> status, kind |-> kind, issue |-> FALSE]

IsApi(path) == path \in {"/api/setup", "/api/config", "/api/toggle", "/api/other"}

\* variant: every password is taken
verifyPasswordAny(body, hash) == TRUE

\* body.password || '' against the stored hash
verifyPassword(body, hash) ==
  hashPassword(IF body.password = Absent THEN <<>> ELSE Given(body.password)) = hash

handleAdmin(req, cf, sec, t) ==
  IF ~cf.setupComplete /\ req.path # "/setup" /\ ~IsApi(req.path)
    THEN Answer(cf, 200, "wizard")
  ELSE IF req.path = "/api/setup" /\ req.method = "POST"
    THEN IF ~PasswordAccepted(req.body)
           THEN Answer(cf, 400, "error")
           ELSE Answer(SetupConfig(cf, req.body), 200, "saved")
  ELSE IF SetupGate(cf)
    THEN Answer(cf, 200, "wizard")
  ELSE IF sec = NoSecret
    THEN Answer(cf, 503, "error")
  ELSE IF req.path = "/login" /\ req.method = "POST"
    THEN IF cf.adminPasswordHash = NoHash THEN Answer(cf, 401, "error")
         ELSE IF ~verifyPassword(req.body, cf.adminPasswordHash)
           THEN Answer(cf, 401, "error")
         ELSE [Answer(cf, 302, "session") EXCEPT !.issue = TRUE]
  ELSE IF req.path = "/logout" /\ req.method = "GET"
    THEN Answer(cf, 302, "cleared")
  ELSE IF req.path = "/api/config"
    THEN IF ~isAuthenticated(req.token, sec, t) THEN Answer(cf, 401, "error")
         ELSE IF req.method = "GET" THEN Answer(cf, 200, "config")
         ELSE IF req.method = "POST"
           THEN Answer(UpdatedConfig(cf, req.body), 200, "saved")
         ELSE Answer(cf, 405, "error")
  ELSE IF req.path = "/api/toggle" /\ req.method = "POST"
    THEN IF ~isAuthenticated(req.token, sec, t) THEN Answer(cf, 401, "error")
         ELSE Answer(ToggledConfig(cf, req.body), 200, "saved")
  ELSE IF req.path = "/" /\ req.method = "GET"
    THEN IF ~isAuthenticated(req.token, sec, t) THEN Answer(cf, 200, "login")
         ELSE Answer(cf, 200, "admin")
  ELSE Answer(cf, 404, "error")

\* the requests explored
Paths == {"/", "/setup", "/login", "/logout", "/api/setup", "/api/config",
          "/api/toggle", "/api/other"}
OtherPassword == Str(MIN_PASSWORD_LENGTH, "q")
PaddedShortPassword == <<" ">> \o ShortPassword \o <<" ">>
PaddedLongPassword == <<" ">> \o LongPassword \o <<" ">>
SetupBodies ==
  {EmptyBody,
   [EmptyBody EXCEPT !.adminPassword = {ShortPassword}],
   [EmptyBody EXCEPT !.adminPassword = {PaddedShortPassword}],
   [EmptyBody EXCEPT !.adminPassword = {LongPassword}, !.enabled = "true",
                     !.messageDelaySeconds = {Seconds(1000)},
                     !.welcomeMessage = {<<" ", "y", "o", " ">>}],
   [EmptyBody EXCEPT !.adminPassword = {PaddedLongPassword}],
   [EmptyBody EXCEPT !.adminPassword = {OtherPassword},
                     !.messageDelaySeconds = {Seconds(0 - 5)}]}
LoginBodies ==
  {[EmptyBody EXCEPT !.password = pw] :
     pw \in {Absent, {LongPassword}, {OtherPassword}, {ShortPassword},
             {PaddedLongPassword}}}
\* a body that asks for a change of every setting
ChangeAll ==
  [EmptyBody EXCEPT !.enabled = "false", !.messageDelaySeconds = {Seconds(1000)},
                    !.welcomeMessage = {<<" ">>}]
ConfigBodies ==
  {EmptyBody,
   ChangeAll,
   [EmptyBody EXCEPT !.enabled = "true", !.messageDelaySeconds = {Tenths(25)},
                     !.welcomeMessage = {<<"y", "o">>}],
   [EmptyBody EXCEPT !.messageDelaySeconds = {Seconds(0 - 5)}],
   [EmptyBody EXCEPT !.messageDelaySeconds = {NotANumeral}]}
ToggleBodies == {[EmptyBody EXCEPT !.enabled = en] : en \in BoolInputs}

AttackerKey == "k2"
\* cookies a client may present: none, one the server issued, one of those
\* with the expiry pushed out, one signed with another key, one without a dot
Cookies ==
  {<<>>} \cup issued
    \cup {<<Payload(Given(tk[1].exp) + SESSION_TTL_SEC), tk[2]>> : tk \in issued}
    \cup {createSession(AttackerKey, now), <<Payload(now + SESSION_TTL_SEC)>>}

Request(path, method, token, body) ==
  [path |-> path, method |-> method, token |-> token, body |-> body]
\* cookies the server has not issued
Forged == Cookies \ ({<<>>} \cup issued)
Requests ==
  {Request(p, "GET", <<>>, EmptyBody) : p \in Paths}
    \cup {Request(p, "GET", tk, EmptyBody) :
            p \in {"/", "/logout", "/api/config"}, tk \in issued}
    \cup {Request("/api/setup", "POST", <<>>, b) : b \in SetupBodies}
    \cup {Request("/login", "POST", <<>>, b) : b \in LoginBodies}
    \cup {Request("/api/config", "POST", tk, b) :
            tk \in {<<>>} \cup issued, b \in ConfigBodies}
    \cup {Request("/api/toggle", "POST", tk, b) :
            tk \in {<<>>} \cup issued, b \in ToggleBodies}
    \cup {Request(p, "POST", tk, ChangeAll) :
            p \in {"/api/config", "/api/toggle"}, tk \in Forged}
    \cup {Request(p, m, <<>>, EmptyBody) :
            p \in {"/", "/setup", "/api/other"}, m \in {"POST", "PUT"}}
    \cup {Request("/api/config", "PUT", tk, EmptyBody) : tk \in {<<>>} \cup issued}

\* whether the cookie is a session the server issued that has not run out
SessionOf(token) ==
  IF token = <<>> THEN "none"
  ELSE IF token \in issued /\ Given(token[1].exp) >= now THEN "live"
  ELSE "invalid"

\* one request to /admin/*, from getConfig to the response
AdminRequestFrom(reqs) ==
  /\ \E req \in reqs :
       LET out == handleAdmin(req, config, secret, now)
       IN  /\ config' = out.config
           /\ issued' = IF out.issue THEN issued \cup {createSession(secret, now)}
                        ELSE issued
           /\ loggedOut' =
                IF out.kind = "cleared" /\ req.token \in issued
                  THEN loggedOut \cup {req.token}
                ELSE IF out.issue THEN loggedOut \ {createSession(secret, now)}
                ELSE loggedOut
           /\ resp' = [path |-> req.path, method |-> req.method,
                       session |-> SessionOf(req.token),
                       afterLogout |-> req.token \in loggedOut,
                       adminPassword |-> req.body.adminPassword,
                       password |-> req.body.password,
                       delay |-> req.body.messageDelaySeconds,
                       status |-> out.status, kind |-> out.kind]
  /\ EnvHist
  /\ UNCHANGED <<ledger, convos, pages, run, delivered, confirmed, secret, now>>

\* any of the requests explored arrives
AdminRequest == AdminRequestFrom(Requests)

\* the instants explored: at SESSION_TTL_SEC + 1 a session issued at 0 has
\* run out and one issued at 1 is in its last second
Instants == {0, 1, SESSION_TTL_SEC + 1}

\* time passes
Tick ==
  /\ \E t \in Instants : t > now /\ now' = t
  /\ EnvHist
  /\ UNCHANGED <<config, ledger, convos, pages, run, delivered, confirmed,
                 secret, issued, resp, loggedOut>>

\* ------------------------------------------------------------ specifications
CycleStep(p) ==
  \/ LoginNoCreds(p) \/ LoginFail(p) \/ LoginOk(p)
  \/ ListOk(p) \/ ListFail(p)
  \/ Examine(p) \/ EndPage(p) \/ Delay(p)
  \/ SendOk(p) \/ SendFail(p) \/ SendThrow(p) \/ SendReturn(p) \/ LedgerPut(p)

Environment ==
  \/ \E c \in DOMAIN convos : NewInbound(c)
  \/ \E d \in ledger : Expire(d)
  \/ AdminSetup({Absent}) \/ AdminConfigPost({Absent}) \/ AdminToggle

\* one invocation at a time, which the host may end at any await
Next ==
  \/ StartCycle(1)
  \/ CycleStep(1)
  \/ Kill(1)
  \/ Environment

Spec == Init /\ [][Next]_vars

\* cron firings overlap: two invocations interleaved at every await
\* the config after a setup that turned the bot on
EnabledConfig(d) ==
  [welcomeMessage |-> DEFAULT_WELCOME, enabled |-> TRUE,
   messageDelaySeconds |-> clampDelay(d), setupComplete |-> TRUE,
   adminPasswordHash |-> hashPassword(LongPassword)]

InitOverlap ==
  \E d \in DelayInputs : InitWith(SmallConvos, SmallPages, EnabledConfig(d))

NextOverlap ==
  \/ \E p \in Procs : StartCycle(p)
  \/ \E p \in Procs : CycleStep(p)
  \/ \E c \in DOMAIN convos : NewInbound(c)

SpecOverlap == InitOverlap /\ [][NextOverlap]_vars

\* one invocation over a list with more first-time correspondents than the cap
InitCap == InitWith(BigConvos, BigPages, EnabledConfig(Seconds(2)))

NextCap ==
  \/ StartCycle(1)
  \/ CycleStep(1)

SpecCap == InitCap /\ [][NextCap]_vars

\* one invocation while the admin saves new settings
NextSnapshot ==
  \/ StartCycle(1)
  \/ CycleStep(1)
  \/ AdminConfigPost(MessageInputs)
  \/ AdminToggle

SpecSnapshot == InitOverlap /\ [][NextSnapshot]_vars

\* one invocation at a time over the years: messages arrive, entries expire
NextYears ==
  \/ StartCycle(1)
  \/ CycleStep(1)
  \/ \E c \in DOMAIN convos : NewInbound(c)
  \/ \E d \in ledger : Expire(d)

SpecYears == InitOverlap /\ [][NextYears]_vars

\* one invocation with a long welcome message in the KV
Text(n, m) == [i \in 1..n |-> IF i % m = 0 THEN "^" ELSE "a"]
LongTexts ==
  {Str(DM_MAX_GRAPHEMES + 200, "a"),
   Text(2 * DM_MAX_GRAPHEMES + 400, 2),
   Text(2 * DM_MAX_GRAPHEMES, 2) \o <<"^", " ">>,
   <<" ">> \o Text(2 * DM_MAX_GRAPHEMES + 1, 2) \o <<" ">>,
   <<" ", "y", "o", " ">>}

InitText ==
  \E msg \in LongTexts :
    InitWith(SmallConvos, SmallPages,
             [EnabledConfig(Seconds(2)) EXCEPT !.welcomeMessage = msg])

NextText ==
  \/ StartCycle(1)
  \/ CycleStep(1)

SpecText == InitText /\ [][NextText]_vars

\* one invocation over lists of several shapes: two pages, an empty list, an
\* empty page in the middle
PageWorlds == {SmallPages, << <<>> >>, << <<3, 1>>, <<>>, <<2>> >>}

InitPages ==
  \E pg \in PageWorlds : InitWith(SmallConvos, pg, EnabledConfig(Seconds(2)))

NextPages ==
  \/ StartCycle(1)
  \/ CycleStep(1)

\* a started invocation keeps running: each of its awaits returns or throws
SpecPages == InitPages /\ [][NextPages]_vars /\ WF_vars(CycleStep(1))

\* one invocation over conversations that are not well formed
InitOdd ==
  \E d \in DelayInputs : InitWith(OddConvos, OddPages, EnabledConfig(d))

NextOdd ==
  \/ StartCycle(1)
  \/ CycleStep(1)

SpecOdd == InitOdd /\ [][NextOdd]_vars

\* the admin interface alone
InitAdmin ==
  \E sec \in {NoSecret, ServerSecret} :
    InitState(SmallConvos, SmallPages, DefaultConfig, sec)

NextAdmin ==
  \/ AdminRequest
  \/ Tick

SpecAdmin == InitAdmin /\ [][NextAdmin]_vars

\* ================================================================ properties
Sending == {"delay", "send", "resp", "put"}

\* the conversation invocation p examined just before the current one
PrevConvo(p) == run[p].page[run[p].idx - 1]
PrevOther(p) == getOtherParticipantDid(run[p].ourDid, PrevConvo(p))

\* would a listing taken now find conversation c eligible for a reply
EligibleNow(cv, kv, c) ==
  Eligible([IdleRun EXCEPT !.ourDid = Bot, !.page = <<cv[c]>>, !.idx = 1], kv)

AtMostOneReply == \A d \in DOMAIN delivered : delivered[d] <= 1

\* C3 (write-after-send): a ledger entry exists only for a correspondent for
\* whom a send was confirmed before.
WriteAfterSend == ledger \subseteq confirmed

\* an entry is live while a send to another correspondent failed or is pending
C3Witness ==
  /\ ledger # {}
  /\ \E p \in Procs : run[p].pc = "send" /\ OtherDid(run[p]) \notin confirmed

\* C4 (first contact): a cycle never sends into a conversation whose last
\* message is from the bot, neither as listed nor as the service holds it when
\* the send is due.
NoSendAfterOwnMessage ==
  \A p \in Procs :
    /\ run[p].pc \in Sending => CurConvo(run[p]).lastMessage # Bot
    /\ run[p].pc \in {"delay", "send"} =>
         convos[CurConvo(run[p]).id].lastMessage # Bot

\* a logged-in cycle stepped over a conversation whose last message is the
\* bot's, although there is no ledger entry for the other participant
C4Witness ==
  \E p \in Procs :
    /\ run[p].pc = "loop" /\ run[p].idx > 1 /\ run[p].ourDid = Bot
    /\ PrevConvo(p).lastMessage = Bot
    /\ PrevOther(p) # Null
    /\ PrevOther(p) \notin ledger

CapEnforced ==
  /\ \A p \in Procs : run[p].repliedCount <= PerCycleSendCap
  /\ started <= 1 => Cardinality(ledger) <= PerCycleSendCap

\* C7 (disabled cycle): a cron firing that finds enabled = false leaves the
\* invocation where it was (no login, no listing, no send) and leaves the
\* ledger, the config and the conversations as they were.
DisabledCycleDoesNothing ==
  [][(started' = started + 1 /\ ~config.enabled) =>
       /\ run' = run
       /\ ledger' = ledger
       /\ config' = config
       /\ convos' = convos
       /\ delivered' = delivered
       /\ confirmed' = confirmed]_vars

\* a cycle has just returned because the bot is disabled, after setup
C7Witness ==
  /\ ev.op = "CycleDisabled"
  /\ config.setupComplete
  /\ ~config.enabled

ListFailureAborts ==
  [][ev'.op = "ListFail" =>
       /\ run'[ev'.p] = IdleRun
       /\ ledger' = ledger
       /\ convos' = convos
       /\ delivered' = delivered
       /\ ledger' \subseteq confirmed']_vars

\* the first cycle replied on the first page, then the listing of the second
\* page failed; the entry is still there
C9Witness ==
  /\ ev.op = "ListFail"
  /\ started = 1
  /\ ledger # {}
  /\ run[ev.p] = IdleRun

\* sends of invocation p that are confirmed but not yet in the ledger
ConfirmedNotLedgered(p) ==
  IF run[p].pc = "put" THEN {OtherDid(run[p])} ELSE {}

\* C10 (mid-flight termination): when the host ends an invocation, each of
\* its confirmed sends has its ledger entry.
KilledCycleHasLedgeredItsSends ==
  [][ev'.op = "Kill" => ConfirmedNotLedgered(ev'.p) = {}]_vars


\* ------------------------------------------------------------ admin interface
\* the step is an admin request (time stands still while it is answered)
Answered == now' = now
SetupSubmission(r) == r.path = "/api/setup" /\ r.method = "POST"
MutatingPost(r) == r.path \in {"/api/config", "/api/toggle"} /\ r.method = "POST"

\* C11: once setupComplete is true a POST /api/setup leaves the stored config
\* unchanged, and the password hash changes only during the initial setup or
\* by a request that carries a live session
SetupIsOneTime ==
  [][Answered /\ config.setupComplete =>
       /\ SetupSubmission(resp') => config' = config
       /\ config'.adminPasswordHash # config.adminPasswordHash =>
            resp'.session = "live"]_vars

\* C12, as stated: a POST to /api/config or /api/toggle without a live session
\* is answered 401 and leaves the stored config unchanged
MutationsNeedSession ==
  [][Answered /\ MutatingPost(resp') /\ resp'.session # "live" =>
       resp'.status = 401 /\ config' = config]_vars

\* C12, amended: such a POST never changes the stored config, and it is
\* answered 401 once setup is complete and ADMIN_SESSION_SECRET is set
MutationsRefusedWithoutSession ==
  [][Answered /\ MutatingPost(resp') /\ resp'.session # "live" =>
       /\ config' = config
       /\ config.setupComplete /\ secret # NoSecret => resp'.status = 401]_vars

C12Witness ==
  /\ MutatingPost(resp)
  /\ resp.session = "invalid"
  /\ resp.status = 401
  /\ issued # {}

\* C13: before setup is complete every admin request other than the setup
\* submission gets the setup wizard, changes no config and issues no session
WizardBeforeSetup ==
  [][Answered /\ ~config.setupComplete /\ ~SetupSubmission(resp') =>
       /\ resp'.kind = "wizard"
       /\ config' = config
       /\ issued' = issued]_vars

C13Witness ==
  /\ ~config.setupComplete
  /\ resp.path = "/login"
  /\ resp.method = "POST"
  /\ resp.kind = "wizard"

\* the ways a token can have been made: signed with a key over one payload,
\* carrying that payload or another
SessionPayloads ==
  {Payload(t) : t \in Instants \cup {i + SESSION_TTL_SEC : i \in Instants}}
TokenCases ==
  [key : {ServerSecret, AttackerKey}, signed : SessionPayloads,
   carried : SessionPayloads]

\* C14: verifySession accepts exactly the tokens signed with the secret over
\* the payload they carry whose exp has not passed; tokens without a
\* signature or with a payload that does not parse fail
VerifiesExactlyGenuine ==
  secret # NoSecret =>
    /\ \A c \in TokenCases :
         verifySession(Token(c.key, c.signed, c.carried), secret, now)
           <=> /\ c.key = secret
               /\ c.signed = c.carried
               /\ Given(c.carried.exp) >= now
    /\ \A tk \in issued :
         verifySession(tk, secret, now) <=> Given(tk[1].exp) >= now
    /\ ~verifySession(<<Payload(now + SESSION_TTL_SEC)>>, secret, now)
    /\ ~verifySession(Token(secret, NotJson, NotJson), secret, now)

C14Witness ==
  /\ \E tk \in issued : Given(tk[1].exp) < now
  /\ \E tk \in issued : Given(tk[1].exp) = now
  /\ resp.session = "invalid"
  /\ resp.status = 401

\* C15: the persisted messageDelaySeconds is an integer in [0, 300]; a saved
\* 1000 persists as 300 and a saved -5 as 0
DelayClamped ==
  /\ config.messageDelaySeconds \in 0..300
  /\ resp.kind = "saved" /\ resp.delay = {Seconds(1000)} =>
       config.messageDelaySeconds = 300
  /\ resp.kind = "saved" /\ resp.delay = {Seconds(0 - 5)} =>
       config.messageDelaySeconds = 0

C15Witness ==
  /\ resp.kind = "saved"
  /\ resp.path = "/api/config"
  /\ resp.delay = {Seconds(1000)}
  /\ config.messageDelaySeconds = 300

\* ------------------------------------------------------------------ the text
Clusters(t) == Cardinality(Segments(t))

\* C16: the text handed to the service is the trimmed reply text when that
\* has at most 1000 grapheme clusters, and else its first 1000 clusters
SentTextTruncated ==
  \A p \in Procs :
    run[p].pc \in {"resp", "put"} =>
      LET t == Trim(run[p].welcomeMsg)
          w == run[p].wire
      IN  IF Clusters(t) <= 1000 THEN w = t
          ELSE /\ Len(w) < Len(t)
               /\ w = SubSeq(t, 1, Len(w))
               /\ Clusters(w) = 1000
               /\ IsSegmentStart(t, Len(w) + 1)

C16Witness ==
  /\ run[1].pc = "resp"
  /\ Clusters(run[1].welcomeMsg) = 1200
  /\ Len(run[1].welcomeMsg) = 2400
  /\ Clusters(run[1].wire) = 1000
  /\ Len(run[1].wire) = 2000

\* C17: a running cycle keeps the config it read at its start: the enabled
\* flag, the delay awaited and the text sent are those of that config,
\* whatever the admin has saved since
ReadOnceConfig ==
  [][\A p \in Procs :
       run'[p].pc # "idle" =>
         /\ run'[p].config = IF run[p].pc = "idle" THEN config ELSE run[p].config
         /\ run'[p].config.enabled
         /\ run'[p].waited # Null =>
              run'[p].waited = SnapshotDelay(run'[p].config)
         /\ run'[p].wire # <<>> =>
              run'[p].wire =
                truncateMessage(Trim(SnapshotMessage(run'[p].config)))]_vars

C17Witness ==
  /\ run[1].pc = "resp"
  /\ run[1].waited # Null
  /\ ~config.enabled
  /\ config.messageDelaySeconds # run[1].waited
  /\ SnapshotMessage(config) # run[1].wire

\* ------------------------------------------------------------ over the years
\* C18: each account receives the auto-reply at most once, whatever time
\* passes
OneReplyPerUserEver == \A d \in DOMAIN delivered : delivered[d] <= 1

\* conversations in which the bot account wrote before the bot was enabled
ExistingConvos == {c \in DOMAIN SmallConvos : SmallConvos[c].lastMessage = Bot}

\* C19: no cycle sends into a conversation in which the bot account had
\* already written
ExistingConvosSkipped ==
  [][\A c \in ExistingConvos :
       convos[c].lastMessage # Bot => convos'[c].lastMessage # Bot]_vars

\* C20: a send answered 429 ends the cycle
RateLimitStopsCycle ==
  [][ev'.op = "SendFail" /\ ev'.status = 429 => run'[ev'.p].pc = "idle"]_vars


\* ------------------------------------------------------- overlapping cycles
\* invocation p reads 'replied:<did>' in this step and goes on to reply
ReadsAndProceeds(p) == run[p].pc = "loop" /\ run'[p].pc \in {"delay", "send"}

\* C21: with overlapping cycles a cycle goes on to send only when no cycle
\* had written the correspondent's entry at the time of its own read, so the
\* same correspondent gets two sends only when both cycles read before either
\* wrote
DoubleSendOnlyByRace ==
  [][\A p \in Procs :
       /\ ReadsAndProceeds(p) => OtherDid(run[p]) \notin ledger
       /\ run[p].pc = "loop" /\ run[p].idx <= Len(run[p].page)
            /\ run'[p] # run[p] /\ OtherDid(run[p]) \in ledger
            => run'[p].pc = "loop" /\ delivered' = delivered]_vars

\* both cycles have read, both sends were accepted, neither has written yet
C21Witness ==
  /\ \A p \in Procs : run[p].pc \in {"resp", "put"} /\ OtherDid(run[p]) = 1
  /\ delivered[1] = 2
  /\ 1 \notin ledger

\* invocation p's send is accepted in this step
SendAccepted(p) == run[p].pc = "send" /\ run'[p].pc = "resp"

\* C22: within one cycle no correspondent gets two sends: whenever the cycle
\* is about to examine a conversation or fetch a page, every correspondent it
\* has sent to is in the ledger
OncePerCycle ==
  [][\A p \in Procs :
       /\ SendAccepted(p) => OtherDid(run[p]) \notin run[p].sentTo
       /\ run'[p].pc \in {"loop", "list"} => run'[p].sentTo \subseteq ledger']_vars

\* the cycle replied to correspondent 1 in conversation 1 and has passed over
\* conversation 3 on the next page, whose first other member is 1 again
C22Witness ==
  /\ run[1].pc = "loop"
  /\ 1 \in run[1].sentTo
  /\ run[1].idx = 2
  /\ run[1].page[1].id = 3
  /\ run[1].page[1].lastMessage \notin {Null, Bot}
  /\ delivered[1] = 1

Pagination ==
  /\ [][\A p \in Procs :
          /\ run[p].pc = "list" /\ run'[p].pc = "loop" =>
               /\ [i \in 1..Len(run'[p].page) |-> run'[p].page[i].id]
                    = pages[IF run[p].cursor = 0 THEN 1 ELSE run[p].cursor]
               /\ run'[p].idx = 1
          /\ run[p].pc = "loop" /\ run'[p].pc = "loop" =>
               run'[p].idx \in {run[p].idx, run[p].idx + 1}
          /\ run[p].pc = "loop" /\ run'[p].pc = "list" =>
               run[p].idx > Len(run[p].page) /\ run[p].cursor # 0
          /\ run[p].pc = "loop" /\ run[p].idx > Len(run[p].page)
               /\ run'[p] # run[p] =>
               IF run[p].cursor # 0 THEN run'[p].pc = "list"
               ELSE run'[p] = IdleRun /\ ev' = Event("CycleDone", p)
          /\ ev'.op = "CycleDone" /\ ev'.p = p /\ ev' # ev =>
               run[p].cursor = 0 /\ run[p].idx > Len(run[p].page)
          /\ pages = << <<>> >> /\ run[p].pc = "loop" /\ run'[p] # run[p] =>
               ev' = Event("CycleDone", p) /\ delivered' = delivered]_vars
  /\ \A p \in Procs : run[p].pc # "idle" ~> run[p].pc = "idle"

\* a cycle has completed over three pages, the second of them empty
C24Witness ==
  /\ Len(pages) = 3
  /\ ev.op = "CycleDone"
  /\ delivered[1] = 1
  /\ 1 \in ledger

\* ----------------------------------------------------------- eventual reply
\* C25: a failed send leaves the correspondent as they were (no ledger entry,
\* conversation untouched), a cycle that comes to a conversation whose last
\* message is from a correspondent without ledger entry goes on to send, and
\* a send the service accepts is a reply received
RetryAfterFailure ==
  [][/\ ev'.op = "SendFail" =>
          ledger' = ledger /\ convos' = convos /\ delivered' = delivered
     /\ \A p \in Procs :
          /\ /\ run[p].pc = "loop" /\ run[p].idx <= Len(run[p].page)
             /\ run'[p] # run[p]
             /\ OtherDid(run[p]) # Null
             /\ CurConvo(run[p]).lastMessage \notin {Null, run[p].ourDid}
             /\ OtherDid(run[p]) \notin ledger
             => run'[p].pc \in {"delay", "send"} /\ run'[p].idx = run[p].idx
          /\ SendAccepted(p) =>
               delivered'[OtherDid(run[p])] = delivered[OtherDid(run[p])] + 1]_vars

\* the second cycle's send to correspondent 1 is accepted; the first cycle
\* went past conversation 1 to reply to correspondent 2, so its send to 1 had
\* failed
C25Witness ==
  /\ started = 2
  /\ run[1].pc = "resp"
  /\ CurConvo(run[1]).id = 1
  /\ run[1].sentTo = {1}
  /\ delivered[1] = 1
  /\ 2 \in ledger

\* ------------------------------------------------- malformed conversations
\* no participant other than the bot account, or no last-message record
IsMalformed(convo) ==
  \/ \A i \in 1..Len(convo.members) : convo.members[i] = Bot
  \/ convo.lastMessage = Null

\* C26: a conversation without another participant or without last-message
\* record is passed over: no send, no ledger write, and the cycle goes on to
\* the next conversation
MalformedSkipped ==
  [][\A p \in Procs :
       /\ run[p].pc = "loop" /\ run[p].idx <= Len(run[p].page)
       /\ run'[p] # run[p]
       /\ IsMalformed(CurConvo(run[p]))
       => /\ run'[p] = [run[p] EXCEPT !.idx = @ + 1]
          /\ ledger' = ledger
          /\ delivered' = delivered
          /\ convos' = convos]_vars

\* the cycle has passed the three malformed conversations and its send into
\* the fourth is accepted
C26Witness ==
  /\ run[1].pc = "resp"
  /\ CurConvo(run[1]).id = 4
  /\ delivered = [d \in DOMAIN OddConvos |-> IF d = 4 THEN 1 ELSE 0]
  /\ ledger = {}

\* -------------------------------------------------------------------- login
LoginSubmission(r) == r.path = "/login" /\ r.method = "POST"
\* the hash of the submitted password (none submitted: the empty string) is
\* the stored hash
PasswordMatches(pw, cf) ==
  hashPassword(IF pw = Absent THEN <<>> ELSE Given(pw)) = cf.adminPasswordHash

\* C27, as stated: after setup a login issues a session only for a password
\* whose hash is the stored one, and a wrong password is answered 401 with no
\* session and no change of the config
LoginNeedsPassword ==
  [][Answered /\ config.setupComplete /\ LoginSubmission(resp') =>
       /\ resp'.kind = "session" \/ issued' # issued =>
            PasswordMatches(resp'.password, config)
       /\ ~PasswordMatches(resp'.password, config) =>
            resp'.status = 401 /\ config' = config]_vars

\* C27, amended: the same, the answer to a wrong password being 401 when
\* ADMIN_SESSION_SECRET is set and 503 when it is missing
LoginNeedsPasswordOrServiceDown ==
  [][Answered /\ config.setupComplete /\ LoginSubmission(resp') =>
       /\ resp'.kind = "session" \/ issued' # issued =>
            PasswordMatches(resp'.password, config)
       /\ ~PasswordMatches(resp'.password, config) =>
            /\ resp'.status = IF secret = NoSecret THEN 503 ELSE 401
            /\ resp'.kind = "error"
            /\ issued' = issued
            /\ config' = config]_vars

\* a login with another password than the one set up has been refused
C27Witness ==
  /\ config.adminPasswordHash = hashPassword(LongPassword)
  /\ LoginSubmission(resp)
  /\ resp.password = {OtherPassword}
  /\ resp.status = 401
  /\ issued # {}

\* C28: after a logout the mutating endpoints reject the session that was
\* logged out, until a password is presented again
LogoutEndsSession ==
  [][Answered /\ MutatingPost(resp') /\ resp'.afterLogout =>
       resp'.status = 401 /\ config' = config]_vars

\* cookies that are no session: none, no signature, another key's signature,
\* an issued one with the expiry pushed out, an issued one that has run out
FailingCookies ==
  {<<>>, <<Payload(now + SESSION_TTL_SEC)>>, createSession(AttackerKey, now)}
    \cup {<<Payload(Given(tk[1].exp) + SESSION_TTL_SEC), tk[2]>> : tk \in issued}
    \cup {tk \in issued : Given(tk[1].exp) < now}

\* C29: at every endpoint a request gets the same answer, and the config the
\* same treatment, whichever of the failing cookies it carries
UniformAuthFailure ==
  \A p \in Paths, m \in {"GET", "POST", "PUT"},
     b \in {EmptyBody, [EmptyBody EXCEPT !.enabled = "true",
                                         !.messageDelaySeconds = {Seconds(2)}]},
     tk \in FailingCookies :
    handleAdmin(Request(p, m, tk, b), config, secret, now)
      = handleAdmin(Request(p, m, <<>>, b), config, secret, now)

\* a session has run out and a request without a live session was refused
C29Witness ==
  /\ \E tk \in issued : Given(tk[1].exp) < now
  /\ \E tk \in issued : Given(tk[1].exp) >= now
  /\ MutatingPost(resp)
  /\ resp.session = "invalid"
  /\ resp.status = 401
  /\ config.setupComplete

\* C30: a setup submission whose password has fewer than 8 characters is
\* answered with an error and leaves the stored config unchanged
ShortPasswordRejected ==
  [][/\ Answered /\ SetupSubmission(resp')
     /\ \/ resp'.adminPassword = Absent
        \/ Len(Given(resp'.adminPassword)) < 8
     => /\ resp'.status = 400
        /\ resp'.kind = "error"
        /\ config' = config]_vars

\* a 7-character password was refused and the admin area is unconfigured
C30Witness ==
  /\ SetupSubmission(resp)
  /\ resp.adminPassword = {ShortPassword}
  /\ resp.status = 400
  /\ ~config.setupComplete
  /\ config.adminPasswordHash = NoHash

\* the step is a cycle ending at its start: credentials missing or the
\* platform refusing the login
LoginFailed == ev'.op \in {"NoCreds", "LoginFail"}

\* the locals a cycle starts with, whatever the cycle before it did
FreshStart(r) ==
  /\ r.pc = "login"
  /\ r.ourDid = Null
  /\ r.cursor = 0
  /\ r.page = <<>>
  /\ r.idx = 0
  /\ r.repliedCount = 0
  /\ r.sentTo = {}
  /\ r.wire = <<>>

\* C31: a cycle whose credentials are missing or whose login fails has
\* listed nothing, sends nothing and writes no ledger entry: it ends at once,
\* leaving conversations, ledger and deliveries as they were; and every
\* firing of the trigger, the one after such a cycle included, starts a
\* cycle with fresh locals
LoginFailureEndsCycle ==
  [][/\ LoginFailed =>
          /\ run[ev'.p].pc = "login"
          /\ run[ev'.p].page = <<>>
          /\ run[ev'.p].cursor = 0
          /\ run[ev'.p].sentTo = {}
          /\ run'[ev'.p] = IdleRun
          /\ ledger' = ledger
          /\ delivered' = delivered
          /\ confirmed' = confirmed
          /\ convos' = convos
     /\ \A p \in Procs :
          (run[p].pc = "idle" /\ run'[p].pc # "idle") => FreshStart(run'[p])]_vars

\* the second cycle could not log in after the first one had replied: the
\* entry of the first is untouched and the invocation is idle again
C31Witness ==
  /\ ev.op = "LoginFail"
  /\ started = 2
  /\ ledger # {}
  /\ run[ev.p] = IdleRun

\* invocation p writes the ledger entry of the send it has just made
LedgerWritten(p) ==
  /\ run[p].pc = "put"
  /\ run'[p].repliedCount = run[p].repliedCount + 1

\* the sender of the last message of the conversation, as the cycle listed it
LastSender(r) == CurConvo(r).lastMessage

\* C32: whenever a cycle has sent into a conversation and writes its ledger
\* entry, the key written is the sender of the conversation's last message,
\* in conversations with several participants other than the bot as well
LedgerKeyIsLastSender ==
  [][\A p \in Procs :
       LedgerWritten(p) =>
         /\ LastSender(run[p]) \in ledger'
         /\ ledger' \ ledger \subseteq {LastSender(run[p])}]_vars

\* the login submission that presents, verbatim, the password string of the
\* setup submission r
SameStringLogin(r) ==
  Request("/login", "POST", <<>>, [EmptyBody EXCEPT !.password = r.adminPassword])

\* C33: with the session secret configured, once a setup submission has been
\* accepted, a login that presents the same password string verbatim is
\* accepted and issues a session
PasswordRoundTrip ==
  /\ SetupSubmission(resp)
  /\ resp.kind = "saved"
  /\ secret # NoSecret
  => LET out == handleAdmin(SameStringLogin(resp), config, secret, now)
     IN  /\ out.kind = "session"
         /\ out.issue

\* the admin area and the reply cycles over the same KV namespace: one
\* invocation at a time, admin requests arriving between any two of its steps
InitFrame == InitState(SmallConvos, SmallPages, DefaultConfig, ServerSecret)

\* the setup that turns the bot on, the login with its password, logout, and
\* the config and toggle submissions with and without the session
FrameBodies ==
  {EmptyBody, ChangeAll,
   [EmptyBody EXCEPT !.password = {LongPassword}],
   [EmptyBody EXCEPT !.adminPassword = {LongPassword}, !.enabled = "true",
                     !.messageDelaySeconds = {Seconds(1000)},
                     !.welcomeMessage = {<<" ", "y", "o", " ">>}]}
FrameRequests ==
  {r \in Requests :
     /\ r.body \in FrameBodies
     /\ r.token \in {<<>>} \cup issued
     /\ r.method = "POST" \/ r.path = "/logout"}

NextFrame ==
  \/ StartCycle(1)
  \/ CycleStep(1)
  \/ AdminRequestFrom(FrameRequests)

SpecFrame == InitFrame /\ [][NextFrame]_vars

\* the step is one of the admin handler, not of a reply cycle
AdminStep == run' = run

\* C34: a config-update or toggle request changes of the stored config only
\* welcomeMessage, enabled and messageDelaySeconds, never adminPasswordHash
\* or setupComplete; setupComplete never goes from true back to false; no
\* admin request adds or removes a ledger key; no step of a reply cycle
\* changes the stored config
FrameOfAdminAndCycles ==
  [][/\ AdminStep /\ MutatingPost(resp') =>
          /\ config'.adminPasswordHash = config.adminPasswordHash
          /\ config'.setupComplete = config.setupComplete
     /\ config.setupComplete => config'.setupComplete
     /\ AdminStep => ledger' = ledger
     /\ ~AdminStep => config' = config]_vars

\* a config update was saved between a cycle's send and its ledger write:
\* the bot is now off with the delay at the cap, the hash and setupComplete
\* are as the setup left them, and the ledger is still without the entry
C34Witness ==
  /\ MutatingPost(resp)
  /\ resp.path = "/api/config"
  /\ resp.kind = "saved"
  /\ run[1].pc = "put"
  /\ delivered[1] = 1
  /\ ledger = {}
  /\ ~config.enabled
  /\ config.messageDelaySeconds = MAX_DELAY_SECONDS
  /\ config.setupComplete
  /\ config.adminPasswordHash = hashPassword(LongPassword)

====
